---- MODULE Spec2Model ----
(***************************************************************************)
(* Image Alchemist: the App component (session state, file selection,      *)
(* submission), the Encoder fileToBase64 and the Edit Client               *)
(* editImageWithPrompt.                                                    *)
(*                                                                         *)
(* A JavaScript string is a sequence of tokens.  The delimiters the code   *)
(* splits on (",", ";", ":", "/") are tokens of their own and no other     *)
(* token contains one, so split/includes/concatenation act on token        *)
(* sequences as they act on the characters.                                *)
(***************************************************************************)
EXTENDS Naturals, Sequences, FiniteSets

VARIABLES
    originalImageFile,     \* useState<File | null>
    originalImagePreview,  \* useState<string | null>: index of the object URL, 0 = null
    editedImage,           \* useState<string | null>
    prompt,                \* useState<string>
    isLoading,             \* useState<boolean>
    error,                 \* useState<string | null>
    mounted,               \* the component is mounted
    objectURLs,            \* objectURLs[h]: times URL.revokeObjectURL was called on handle h
    tasks,                 \* handleSubmit invocations suspended at an await
    readerResult,          \* reader.result handed to the Encoder under test
    apiReply,              \* what generateContent gave the Edit Client under test
    settled,               \* settlement of the promise under test
    savedAs,               \* link.download of the last save, null before any
    lastResult             \* history: the result of the last successful submission
                           \* since the last file selection, null when there is none

vars == <<originalImageFile, originalImagePreview, editedImage, prompt, isLoading,
          error, mounted, objectURLs, tasks, readerResult, apiReply, settled, savedAs, lastResult>>

appVars == <<originalImageFile, originalImagePreview, editedImage, prompt, isLoading,
             error, mounted, objectURLs, tasks, savedAs, lastResult>>

unitVars == <<readerResult, apiReply, settled>>

----------------------------------------------------------------------------
(* Bounds *)

MaxSelections == 2     \* file selections (object URLs created) in one session
MaxPromptLen == 2      \* tokens in the instruction text
MaxTasks == 1          \* suspended handleSubmit invocations when the handler is called directly
MaxResultLen == 4      \* tokens in a reader.result
MaxParts == 3          \* content parts in a response
MaxMsgLen == 3         \* tokens in the message of a thrown Error
MaxMimeLen == 3        \* tokens in the mimeType of a returned part

----------------------------------------------------------------------------
(* JavaScript values *)

null == <<"null">>
undefined == <<"undefined">>
NoFile == "null"

Truthy(s) == s # null /\ s # undefined /\ s # <<>>

BoundedSeq(S, n) == UNION {[1..k -> S] : k \in 0..n}

\* String.prototype.split with a one-token separator
RECURSIVE Split(_, _)
Split(s, sep) ==
    IF \E i \in 1..Len(s) : s[i] = sep
    THEN LET i == CHOOSE k \in 1..Len(s) :
                      s[k] = sep /\ \A j \in 1..(k - 1) : s[j] # sep
         IN  <<SubSeq(s, 1, i - 1)>> \o Split(SubSeq(s, i + 1, Len(s)), sep)
    ELSE <<s>>

\* arr[k] of a JavaScript array (0-based), undefined past its end
At(arr, k) == IF k + 1 \in DOMAIN arr THEN arr[k + 1] ELSE undefined

\* String.prototype.includes
Includes(s, sub) ==
    \E i \in 0..Len(s) : i + Len(sub) <= Len(s) /\ SubSeq(s, i + 1, i + Len(sub)) = sub

IsSpace(c) == c = " "

\* String.prototype.trim
RECURSIVE TrimStart(_)
TrimStart(s) == IF s # <<>> /\ IsSpace(Head(s)) THEN TrimStart(Tail(s)) ELSE s

RECURSIVE TrimEnd(_)
TrimEnd(s) ==
    IF s # <<>> /\ IsSpace(s[Len(s)]) THEN TrimEnd(SubSeq(s, 1, Len(s) - 1)) ELSE s

Trim(s) == TrimEnd(TrimStart(s))

\* new Error(message) and a thrown value that is no Error
Error(m) == [isError |-> TRUE, message |-> m]
NonError == [isError |-> FALSE, message |-> undefined]

\* a settled promise
Resolve(v) == [state |-> "fulfilled", value |-> v, reason |-> NonError]
Reject(e) == [state |-> "rejected", value |-> undefined, reason |-> e]
Pending == [state |-> "pending", value |-> undefined, reason |-> NonError]

----------------------------------------------------------------------------
(* Encoder: fileToBase64 *)

MsgEmptyResult == <<"Failed to convert file to base64: result was empty.">>
MsgReadFailed == <<"File could not be read: ", "[object ProgressEvent]">>

\* reader.onload without the test of base64String
fileReaderOnloadUnchecked(result) == Resolve(At(Split(result, ","), 1))

\* reader.onload: the read result with its "data:[mime-type];base64," prefix stripped
fileReaderOnload(result) ==
    LET base64String == At(Split(result, ","), 1)
    IN  IF Truthy(base64String)
        THEN Resolve(base64String)
        ELSE Reject(Error(MsgEmptyResult))

\* reader.onerror
fileReaderOnerror == Reject(Error(MsgReadFailed))

----------------------------------------------------------------------------
(* Edit Client: editImageWithPrompt *)

MsgNoImage == <<"No image data was found in the API response.">>
MsgInvalidKey == <<"The provided API key is not valid. Please check your configuration.">>
MsgFailedToEdit == <<"Failed to edit image: ">>
MsgUnknown == <<"An unknown error occurred while communicating with the AI model.">>
ApiKeyNotValid == <<"API key", "not valid">>

\* content parts of a response
TextPart == [hasInlineData |-> FALSE, mimeType |-> undefined, data |-> undefined]
InlinePart(mimeType, data) == [hasInlineData |-> TRUE, mimeType |-> mimeType, data |-> data]

\* what ai.models.generateContent gives: a response with its parts, or a thrown value
Response(parts) == [throws |-> FALSE, thrown |-> NonError, parts |-> parts]
Throws(e) == [throws |-> TRUE, thrown |-> e, parts |-> <<>>]

\* `data:${part.inlineData.mimeType};base64,${base64ImageBytes}`
DataURI(mimeType, data) == <<"data", ":">> \o mimeType \o <<";", "base64", ",">> \o data

\* a scan that keeps the last inline part it meets
RECURSIVE scanPartsLast(_)
scanPartsLast(parts) ==
    IF parts = <<>>
    THEN Reject(Error(MsgNoImage))
    ELSE IF parts[Len(parts)].hasInlineData
         THEN Resolve(DataURI(parts[Len(parts)].mimeType, parts[Len(parts)].data))
         ELSE scanPartsLast(SubSeq(parts, 1, Len(parts) - 1))

\* the for loop over response.candidates[0].content.parts and the throw after it
RECURSIVE scanParts(_)
scanParts(parts) ==
    IF parts = <<>>
    THEN Reject(Error(MsgNoImage))
    ELSE IF Head(parts).hasInlineData
         THEN Resolve(DataURI(Head(parts).mimeType, Head(parts).data))
         ELSE scanParts(Tail(parts))

\* the try block: the awaited call, then the scan
editImageTry(reply) ==
    IF reply.throws THEN Reject(reply.thrown) ELSE scanParts(reply.parts)

\* a catch block without the API-key case
editImageCatchRaw(thrown) ==
    IF thrown.isError
    THEN Reject(Error(MsgFailedToEdit \o thrown.message))
    ELSE Reject(Error(MsgUnknown))

\* the catch block, which every value thrown in the try block reaches
editImageCatch(thrown) ==
    IF thrown.isError
    THEN IF Includes(thrown.message, ApiKeyNotValid)
         THEN Reject(Error(MsgInvalidKey))
         ELSE Reject(Error(MsgFailedToEdit \o thrown.message))
    ELSE Reject(Error(MsgUnknown))

editImageWithPrompt(reply) ==
    LET attempt == editImageTry(reply)
    IN  IF attempt.state = "fulfilled" THEN attempt ELSE editImageCatch(attempt.reason)

----------------------------------------------------------------------------
(* App: session state and handlers *)

MsgUploadFirst == <<"Please upload an image first.">>
MsgEnterPrompt == <<"Please enter an editing prompt.">>
MsgUnexpected == <<"An unexpected error occurred.">>

\* files the picker can hand over; "empty.png" has zero bytes
Files == {"photo.png", "empty.png"}

\* file.type
FileType(file) == <<"image", "/", "png">>

\* what reader.readAsDataURL(file) leaves in reader.result
FileDataURL(file) ==
    <<"data", ":">> \o FileType(file) \o <<";", "base64", ",">>
        \o (IF file = "empty.png" THEN <<>> ELSE <<"iVBORw0K">>)

\* values of the textarea
Prompts == BoundedSeq({" ", "glow"}, MaxPromptLen)

\* outcomes of the remote call met in a session
AppReplies ==
    { Response(<<TextPart, InlinePart(<<"image", "/", "png">>, <<"AAAA">>)>>),
      Response(<<InlinePart(<<"image", "/", "jpeg">>, <<"BBBB">>)>>),
      Response(<<TextPart>>),
      Throws(Error(<<"API key", "not valid">>)),
      Throws(Error(<<"quota">>)),
      Throws(NonError) }

\* a release that never happens
RevokeNever(urls, h) == urls

\* URL.revokeObjectURL(h), guarded by `if (originalImagePreview)`
Revoke(urls, h) == IF h # 0 THEN [urls EXCEPT ![h] = @ + 1] ELSE urls

Remove(seq, i) == SubSeq(seq, 1, i - 1) \o SubSeq(seq, i + 1, Len(seq))

\* an invocation of handleSubmit suspended at `await fileToBase64(...)`
NewTask(file, text) ==
    [pc |-> "fileToBase64", file |-> file, prompt |-> text, base64Data |-> undefined]

\* handleImageChange without setError(null)
handleImageChangeKeepsError(file) ==
    /\ mounted
    /\ IF file # NoFile
       THEN /\ Len(objectURLs) < MaxSelections
            /\ originalImageFile' = file
            /\ originalImagePreview' = Len(objectURLs) + 1
            /\ objectURLs' =
                   Append(Revoke(Revoke(objectURLs, originalImagePreview),
                                 originalImagePreview), 0)
            /\ editedImage' = null
            /\ UNCHANGED error
            /\ lastResult' = null
       ELSE UNCHANGED <<originalImageFile, originalImagePreview, objectURLs,
                        editedImage, error, lastResult>>
    /\ UNCHANGED <<prompt, isLoading, tasks, mounted, unitVars, savedAs>>

\* onChange of the file input; the commit that follows runs the cleanup of the
\* effect that held the previous preview
handleImageChange(file) ==
    /\ mounted
    /\ IF file # NoFile
       THEN /\ Len(objectURLs) < MaxSelections
            /\ originalImageFile' = file
            /\ originalImagePreview' = Len(objectURLs) + 1
            /\ objectURLs' =
                   Append(Revoke(Revoke(objectURLs, originalImagePreview),
                                 originalImagePreview), 0)
            /\ editedImage' = null
            /\ error' = null
            /\ lastResult' = null
       ELSE UNCHANGED <<originalImageFile, originalImagePreview, objectURLs,
                        editedImage, error, lastResult>>
    /\ UNCHANGED <<prompt, isLoading, tasks, mounted, unitVars, savedAs>>

\* onChange of the textarea, disabled={isLoading}
setPrompt(value) ==
    /\ mounted
    /\ ~isLoading
    /\ prompt' = value
    /\ UNCHANGED <<originalImageFile, originalImagePreview, editedImage, isLoading,
                   error, objectURLs, tasks, mounted, unitVars, savedAs, lastResult>>

\* handleSubmit testing prompt where it tests prompt.trim()
handleSubmitNoTrim ==
    IF originalImageFile = NoFile
    THEN /\ error' = MsgUploadFirst
         /\ UNCHANGED <<isLoading, editedImage, tasks>>
    ELSE IF ~Truthy(prompt)
         THEN /\ error' = MsgEnterPrompt
              /\ UNCHANGED <<isLoading, editedImage, tasks>>
         ELSE /\ isLoading' = TRUE
              /\ error' = null
              /\ editedImage' = null
              /\ tasks' = Append(tasks, NewTask(originalImageFile, prompt))

\* handleSubmit without setEditedImage(null)
handleSubmitKeepsResult ==
    IF originalImageFile = NoFile
    THEN /\ error' = MsgUploadFirst
         /\ UNCHANGED <<isLoading, editedImage, tasks>>
    ELSE IF ~Truthy(Trim(prompt))
         THEN /\ error' = MsgEnterPrompt
              /\ UNCHANGED <<isLoading, editedImage, tasks>>
         ELSE /\ isLoading' = TRUE
              /\ error' = null
              /\ UNCHANGED editedImage
              /\ tasks' = Append(tasks, NewTask(originalImageFile, prompt))

\* handleSubmit clearing the result before it validates
handleSubmitClearsFirst ==
    IF originalImageFile = NoFile
    THEN /\ error' = MsgUploadFirst
         /\ editedImage' = null
         /\ UNCHANGED <<isLoading, tasks>>
    ELSE IF ~Truthy(Trim(prompt))
         THEN /\ error' = MsgEnterPrompt
              /\ editedImage' = null
              /\ UNCHANGED <<isLoading, tasks>>
         ELSE /\ isLoading' = TRUE
              /\ error' = null
              /\ editedImage' = null
              /\ tasks' = Append(tasks, NewTask(originalImageFile, prompt))

\* handleSubmit without setError(null)
handleSubmitKeepsError ==
    IF originalImageFile = NoFile
    THEN /\ error' = MsgUploadFirst
         /\ UNCHANGED <<isLoading, editedImage, tasks>>
    ELSE IF ~Truthy(Trim(prompt))
         THEN /\ error' = MsgEnterPrompt
              /\ UNCHANGED <<isLoading, editedImage, tasks>>
         ELSE /\ isLoading' = TRUE
              /\ UNCHANGED error
              /\ editedImage' = null
              /\ tasks' = Append(tasks, NewTask(originalImageFile, prompt))

\* handleSubmit up to its first await
handleSubmit ==
    IF originalImageFile = NoFile
    THEN /\ error' = MsgUploadFirst
         /\ UNCHANGED <<isLoading, editedImage, tasks>>
    ELSE IF ~Truthy(Trim(prompt))
         THEN /\ error' = MsgEnterPrompt
              /\ UNCHANGED <<isLoading, editedImage, tasks>>
         ELSE /\ isLoading' = TRUE
              /\ error' = null
              /\ editedImage' = null
              /\ tasks' = Append(tasks, NewTask(originalImageFile, prompt))

\* the button disabled only for want of a file
submitDisabledNoLoading == originalImageFile = NoFile

\* the submit button, disabled={isLoading || !originalImageFile}
submitDisabled == isLoading \/ originalImageFile = NoFile

clickSubmit ==
    /\ mounted
    /\ ~submitDisabled
    /\ handleSubmit
    /\ UNCHANGED <<originalImageFile, originalImagePreview, prompt, objectURLs,
                   mounted, unitVars, savedAs, lastResult>>

\* handleSubmit called as a function, whatever the button shows
callHandleSubmit ==
    /\ mounted
    /\ Len(tasks) < MaxTasks
    /\ handleSubmit
    /\ UNCHANGED <<originalImageFile, originalImagePreview, prompt, objectURLs,
                   mounted, unitVars, savedAs, lastResult>>

\* the catch without the finally
handleSubmitCatchNoFinally(err) ==
    /\ error' = (IF err.isError THEN err.message ELSE MsgUnexpected)
    /\ UNCHANGED <<isLoading, editedImage, lastResult>>

\* catch and finally of handleSubmit
handleSubmitCatch(err) ==
    /\ error' = (IF err.isError THEN err.message ELSE MsgUnexpected)
    /\ isLoading' = FALSE
    /\ UNCHANGED <<editedImage, lastResult>>

\* setEditedImage(result) and finally
handleSubmitResult(result) ==
    /\ editedImage' = result
    /\ isLoading' = FALSE
    /\ lastResult' = result
    /\ UNCHANGED error

\* a resumption that goes on to the remote call whatever the read gave
readSettlesGoesOn(i, outcome) ==
    /\ mounted
    /\ i \in DOMAIN tasks
    /\ tasks[i].pc = "fileToBase64"
    /\ tasks' = [tasks EXCEPT ![i].pc = "editImageWithPrompt",
                              ![i].base64Data = outcome.value]
    /\ UNCHANGED <<editedImage, isLoading, error, lastResult>>
    /\ UNCHANGED <<originalImageFile, originalImagePreview, prompt, objectURLs,
                   mounted, unitVars, savedAs>>

\* the promise of fileToBase64 settles and handleSubmit resumes
readSettles(i, outcome) ==
    /\ mounted
    /\ i \in DOMAIN tasks
    /\ tasks[i].pc = "fileToBase64"
    /\ IF outcome.state = "fulfilled"
       THEN /\ tasks' = [tasks EXCEPT ![i].pc = "editImageWithPrompt",
                                      ![i].base64Data = outcome.value]
            /\ UNCHANGED <<editedImage, isLoading, error, lastResult>>
       ELSE /\ tasks' = Remove(tasks, i)
            /\ handleSubmitCatch(outcome.reason)
    /\ UNCHANGED <<originalImageFile, originalImagePreview, prompt, objectURLs,
                   mounted, unitVars, savedAs>>

fileRead ==
    \E i \in DOMAIN tasks :
        \E outcome \in {fileReaderOnload(FileDataURL(tasks[i].file)), fileReaderOnerror} :
            readSettles(i, outcome)

\* the promise of editImageWithPrompt settles and handleSubmit resumes
callSettles(i, outcome) ==
    /\ mounted
    /\ i \in DOMAIN tasks
    /\ tasks[i].pc = "editImageWithPrompt"
    /\ tasks' = Remove(tasks, i)
    /\ IF outcome.state = "fulfilled"
       THEN handleSubmitResult(outcome.value)
       ELSE handleSubmitCatch(outcome.reason)
    /\ UNCHANGED <<originalImageFile, originalImagePreview, prompt, objectURLs,
                   mounted, unitVars, savedAs>>

remoteCall ==
    \E i \in DOMAIN tasks :
        \E reply \in AppReplies : callSettles(i, editImageWithPrompt(reply))

\* the component is torn down: the cleanup of the last effect runs
unmount ==
    /\ mounted
    /\ mounted' = FALSE
    /\ objectURLs' = Revoke(objectURLs, originalImagePreview)
    /\ UNCHANGED <<originalImageFile, originalImagePreview, editedImage, prompt,
                   isLoading, error, tasks, unitVars, savedAs, lastResult>>

\* a || b
Or(a, b) == IF Truthy(a) THEN a ELSE b

\* the name taken from the type where the code takes the subtype
downloadNameOfType(uri) ==
    LET mimeType == Or(At(Split(At(Split(uri, ";"), 0), ":"), 1), <<"image", "/", "png">>)
        extension == Or(At(Split(mimeType, "/"), 0), <<"png">>)
    IN  <<"alchemized-image", ".">> \o extension

\* link.download for a result: `alchemized-image.${extension}`
downloadName(uri) ==
    LET mimeType == Or(At(Split(At(Split(uri, ";"), 0), ":"), 1), <<"image", "/", "png">>)
        extension == Or(At(Split(mimeType, "/"), 1), <<"png">>)
    IN  <<"alchemized-image", ".">> \o extension

\* handleDownload
handleDownload ==
    /\ IF Truthy(editedImage)
       THEN savedAs' = downloadName(editedImage)
       ELSE UNCHANGED savedAs
    /\ UNCHANGED <<originalImageFile, originalImagePreview, editedImage, prompt,
                   isLoading, error, mounted, objectURLs, tasks, unitVars, lastResult>>

\* the download button of the "Edited" card, rendered when !isLoading && imageUrl
clickDownload ==
    /\ mounted
    /\ ~isLoading
    /\ Truthy(editedImage)
    /\ handleDownload

selectFile == \E file \in Files \cup {NoFile} : handleImageChange(file)

editPrompt == \E value \in Prompts : setPrompt(value)

AppInit ==
    /\ originalImageFile = NoFile
    /\ originalImagePreview = 0
    /\ editedImage = null
    /\ prompt = <<>>
    /\ isLoading = FALSE
    /\ error = null
    /\ mounted = TRUE
    /\ objectURLs = <<>>
    /\ tasks = <<>>
    /\ savedAs = null
    /\ lastResult = null

Init ==
    /\ AppInit
    /\ readerResult = undefined
    /\ apiReply = Response(<<>>)
    /\ settled = Pending

\* the session as the page runs it
Next ==
    selectFile \/ editPrompt \/ clickSubmit \/ fileRead \/ remoteCall \/ clickDownload
        \/ unmount

Spec == Init /\ [][Next]_vars

\* the session when every pending read and every pending remote call settles
SpecFair == Spec /\ WF_vars(fileRead) /\ WF_vars(remoteCall)

\* the session with handleSubmit called directly
NextHandler ==
    selectFile \/ editPrompt \/ callHandleSubmit \/ fileRead \/ remoteCall
        \/ clickDownload \/ unmount

SpecHandler == Init /\ [][NextHandler]_vars

----------------------------------------------------------------------------
(* The Encoder on its own: one read result, one settlement *)

ResultTokens == {"base64", ",", "AAAA"}

ReadResults == BoundedSeq(ResultTokens, MaxResultLen) \cup {FileDataURL(f) : f \in Files}

InitEncoder ==
    /\ AppInit
    /\ readerResult \in ReadResults
    /\ apiReply = Response(<<>>)
    /\ settled = Pending

\* reader.onload fires with reader.result = readerResult
encoderLoads ==
    /\ settled = Pending
    /\ settled' = fileReaderOnload(readerResult)
    /\ UNCHANGED <<appVars, readerResult, apiReply>>

SpecEncoder == InitEncoder /\ [][encoderLoads]_vars

----------------------------------------------------------------------------
(* The Edit Client on its own: one outcome of the remote call, one settlement *)

PartKinds ==
    { TextPart,
      InlinePart(<<"image", "/", "png">>, <<"AAAA">>),
      InlinePart(<<"image", "/", "jpeg">>, <<"BBBB">>) }

MessageTokens == {"API key", "not valid", "quota"}

ApiReplies ==
    {Response(parts) : parts \in BoundedSeq(PartKinds, MaxParts)}
        \cup {Throws(Error(m)) : m \in BoundedSeq(MessageTokens, MaxMsgLen)}
        \cup {Throws(NonError)}

InitEditClient ==
    /\ AppInit
    /\ readerResult = undefined
    /\ apiReply \in ApiReplies
    /\ settled = Pending

\* generateContent gives apiReply and editImageWithPrompt settles
editClientSettles ==
    /\ settled = Pending
    /\ settled' = editImageWithPrompt(apiReply)
    /\ UNCHANGED <<appVars, readerResult, apiReply>>

SpecEditClient == InitEditClient /\ [][editClientSettles]_vars

----------------------------------------------------------------------------
(* The download on its own: one result, one call of handleDownload *)

MimeTokens == {"image", "/", "jpeg", ";"}

\* results editImageWithPrompt can return, and no result
Results ==
    {null} \cup {DataURI(mimeType, <<"BBBB">>) : mimeType \in BoundedSeq(MimeTokens, MaxMimeLen)}

InitDownload ==
    /\ originalImageFile = "photo.png"
    /\ originalImagePreview = 1
    /\ editedImage \in Results
    /\ prompt = <<"glow">>
    /\ isLoading = FALSE
    /\ error = null
    /\ mounted = TRUE
    /\ objectURLs = <<0>>
    /\ tasks = <<>>
    /\ savedAs = null
    /\ lastResult = editedImage
    /\ readerResult = undefined
    /\ apiReply = Response(<<>>)
    /\ settled = Pending

\* handleDownload called as a function, whatever the card shows
callHandleDownload == handleDownload

SpecDownload == InitDownload /\ [][callHandleDownload]_vars

----------------------------------------------------------------------------
(* Properties of the session *)

\* C1: at most one submission is in flight in every reachable state: while a
\* submission is between its start and the completion or failure of its read and
\* its remote call, no second one is started, so at most one remote call is
\* outstanding, whatever the user does in between.
C1_OneInFlight ==
    /\ Len(tasks) <= 1
    /\ Cardinality({i \in DOMAIN tasks : tasks[i].pc = "editImageWithPrompt"}) <= 1

\* a remote call is outstanding and the user has picked another file meanwhile
C1_Witness ==
    /\ Len(tasks) = 1
    /\ tasks[1].pc = "editImageWithPrompt"
    /\ originalImageFile # tasks[1].file

\* C2: isLoading is true exactly while a submission's read or remote call is
\* outstanding: true from the accepted submit, false after its success or failure.
C2_LoadingIffOutstanding == isLoading <=> (tasks # <<>>)

\* a submission has failed in its read and the flag is down again
C2_Witness == ~isLoading /\ tasks = <<>> /\ error = MsgReadFailed

\* C3: handleSubmit with no file selected, or with an empty or whitespace-only
\* prompt, starts no read and no remote call, leaves isLoading false and sets the
\* error to the validation message.
C3_ValidationStartsNothing ==
    [][ (callHandleSubmit /\ (originalImageFile = NoFile \/ Trim(prompt) = <<>>))
          => /\ tasks' = tasks
             /\ ~isLoading /\ ~isLoading'
             /\ error' = (IF originalImageFile = NoFile
                          THEN MsgUploadFirst ELSE MsgEnterPrompt) ]_vars

\* handleSubmit has run with no file selected
C3_Witness ==
    /\ originalImageFile = NoFile
    /\ error = MsgUploadFirst
    /\ tasks = <<>>
    /\ ~isLoading

\* C4: a file selection stores the new file and a newly created preview handle and
\* leaves the result and the error unset, whatever result and error were there; and
\* where a result or an error is there, no submission is suspended that could set
\* either after the selection.
C4_SelectionClears ==
    [][ originalImagePreview' # originalImagePreview
          => /\ (editedImage # null \/ error # null) => tasks = <<>>
             /\ originalImageFile' \in Files
             /\ originalImagePreview' \notin DOMAIN objectURLs
             /\ originalImagePreview' \in DOMAIN objectURLs'
             /\ objectURLs'[originalImagePreview'] = 0
             /\ editedImage' = null
             /\ error' = null ]_vars

\* a result and an error are both on show and a file can be selected
C4_Witness ==
    /\ editedImage # null
    /\ error # null
    /\ originalImagePreview # 0
    /\ ENABLED selectFile

\* how a settled submission must leave the result and the error
SubmissionOutcome(outcome) ==
    IF outcome.state = "fulfilled"
    THEN editedImage' = outcome.value /\ error' = null
    ELSE /\ error' = (IF outcome.reason.isError
                      THEN outcome.reason.message ELSE MsgUnexpected)
         /\ editedImage' = null

\* C5: an accepted submission ends in one of two ways: the Encoder and the Edit
\* Client both succeed, and the returned URI is the result with no error; or one of
\* them fails, and the error is the failure's message with no result.
C5_TwoOutcomes ==
    [][ /\ \A i \in DOMAIN tasks :
              \A reply \in AppReplies :
                  callSettles(i, editImageWithPrompt(reply))
                      => SubmissionOutcome(editImageWithPrompt(reply))
        /\ \A i \in DOMAIN tasks :
              \A outcome \in {fileReaderOnload(FileDataURL(tasks[i].file)),
                              fileReaderOnerror} :
                  (readSettles(i, outcome) /\ outcome.state = "rejected")
                      => SubmissionOutcome(outcome)
        /\ (tasks # <<>> /\ tasks' = <<>>)
              => (Truthy(editedImage') /\ error' = null)
                     \/ (editedImage' = null /\ Truthy(error')) ]_vars

\* a submission has failed in the Edit Client
C5_Witness == ~isLoading /\ tasks = <<>> /\ error = MsgInvalidKey /\ editedImage = null

\* a submission has just failed: its invocation is gone and the error is set
SubmissionFails == Len(tasks') < Len(tasks) /\ Truthy(error')

\* C12 as stated: after a failed submission, with no file selected since the last
\* successful one, the result is still the URI of that successful submission.
C12_FailureKeepsPriorResult ==
    [][ (SubmissionFails /\ lastResult # null) => editedImage' = lastResult ]_vars

\* C12 as amended: a failed submission leaves the result unset, also when a
\* successful submission for the same file came before it: accepting the
\* submission cleared that result and the failure does not bring it back.
C12_FailureLeavesResultUnset ==
    [][ SubmissionFails => (editedImage = null /\ editedImage' = null) ]_vars

\* a submission has failed after a successful one for the same selection
C12_Witness ==
    /\ lastResult # null
    /\ editedImage = null
    /\ Truthy(error)
    /\ error \notin {MsgUploadFirst, MsgEnterPrompt}
    /\ ~isLoading

\* C13: a submission rejected by validation changes the error message only: the
\* file, the preview handle, the result, the prompt and isLoading stay as they were.
C13_ValidationFrame ==
    [][ (callHandleSubmit /\ (originalImageFile = NoFile \/ Trim(prompt) = <<>>))
          => /\ originalImageFile' = originalImageFile
             /\ originalImagePreview' = originalImagePreview
             /\ objectURLs' = objectURLs
             /\ editedImage' = editedImage
             /\ prompt' = prompt
             /\ isLoading' = isLoading ]_vars

\* a blank prompt has been rejected while a result was on show, and the result is
\* still there
C13_Witness ==
    /\ error = MsgEnterPrompt
    /\ Truthy(editedImage)
    /\ originalImageFile # NoFile
    /\ Trim(prompt) = <<>>

\* C14: a file selection at any point, also while a submission is in flight,
\* returns the session to Ready: right after it isLoading is false, a submission
\* can be started for the new file, and the result and the error are unset.
C14_SelectionReturnsToReady ==
    [][ originalImagePreview' # originalImagePreview
          => /\ ~isLoading'
             /\ ~submitDisabled'
             /\ editedImage' = null
             /\ error' = null ]_vars

\* the submission an invocation of handleSubmit was started for is no longer the
\* selected file
Stale(i) == tasks[i].file # originalImageFile

\* C15: the result belongs to the selected file: the completion, successful or
\* not, of a submission started for a file selected earlier sets neither the
\* result nor the error of the session.
C15_StaleCompletionSetsNothing ==
    [][ \A i \in DOMAIN tasks :
            (Stale(i) /\ tasks' = Remove(tasks, i))
                => (editedImage' = editedImage /\ error' = error) ]_vars

----------------------------------------------------------------------------
(* Properties of the preview handles *)

\* handles created by URL.createObjectURL and not released since
Unreleased == {h \in DOMAIN objectURLs : objectURLs[h] = 0}

\* C16: preview handles do not accumulate: a handle superseded by a later
\* selection has been released, so the only unreleased handle is that of the
\* selected file, and after teardown no handle is unreleased.
C16_HandlesReleased ==
    /\ Unreleased \subseteq {originalImagePreview}
    /\ Cardinality(Unreleased) <= 1
    /\ ~mounted => Unreleased = {}

\* two files were selected in turn and the component was torn down
C16_Witness == ~mounted /\ Len(objectURLs) = 2 /\ originalImagePreview = 2

\* C19: URL.revokeObjectURL is called at most once for each handle, and never for
\* the handle that is the current preview.
C19_ReleasedAtMostOnce ==
    /\ \A h \in DOMAIN objectURLs : objectURLs[h] <= 1
    /\ (mounted /\ originalImagePreview # 0) => objectURLs[originalImagePreview] = 0

----------------------------------------------------------------------------
(* Properties of a submission's course *)

\* C17: no failure is fatal: when the pending read and remote call settle, every
\* submission of a mounted session is followed by a state with isLoading false;
\* with isLoading false, a file selected and a non-blank prompt a submission can
\* be started; and a failure leaves the file and the prompt in place.
C17_AlwaysRetry ==
    /\ (mounted /\ isLoading) ~> (~isLoading \/ ~mounted)
    /\ [](  (mounted /\ ~isLoading /\ originalImageFile # NoFile /\ Truthy(Trim(prompt)))
               => ENABLED (clickSubmit /\ isLoading'))
    /\ [][ SubmissionFails
             => (originalImageFile' = originalImageFile /\ prompt' = prompt) ]_vars

\* a submission has failed in the Edit Client and another can be started
C17_Witness ==
    /\ mounted
    /\ ~isLoading
    /\ error = MsgFailedToEdit \o <<"quota">>
    /\ ENABLED (clickSubmit /\ isLoading')

\* the steps an invocation of handleSubmit goes through
ReadStarts == tasks = <<>> /\ Len(tasks') = 1 /\ tasks'[1].pc = "fileToBase64"
ReadFails == tasks # <<>> /\ tasks[1].pc = "fileToBase64" /\ tasks' = <<>>
CallStarts ==
    /\ tasks # <<>> /\ tasks[1].pc = "fileToBase64"
    /\ tasks' = <<[tasks[1] EXCEPT !.pc = "editImageWithPrompt",
                                   !.base64Data = tasks'[1].base64Data]>>
CallEnds == tasks # <<>> /\ tasks[1].pc = "editImageWithPrompt" /\ tasks' = <<>>

\* C18: a submission makes one read and at most one remote call, in that order:
\* the Edit Client is called only after the Encoder succeeded, with the Encoder's
\* output, and not when the Encoder failed; no failure starts a second read or a
\* second call.
C18_OneReadOneCall ==
    /\ [][ tasks' # tasks => (ReadStarts \/ ReadFails \/ CallStarts \/ CallEnds) ]_vars
    /\ [][ ReadFails => (Truthy(error') /\ ~isLoading') ]_vars
    /\ [](\A i \in DOMAIN tasks :
              tasks[i].pc = "editImageWithPrompt"
                  => /\ fileReaderOnload(FileDataURL(tasks[i].file)).state = "fulfilled"
                     /\ tasks[i].base64Data
                            = fileReaderOnload(FileDataURL(tasks[i].file)).value)

\* the Encoder has failed on the zero-byte file and nothing is pending
C18_Witness ==
    /\ tasks = <<>>
    /\ ~isLoading
    /\ error = MsgEmptyResult
    /\ originalImageFile = "empty.png"

\* C20: while isLoading is true the result and the error are both unset, whatever
\* the user does meanwhile.
C20_LoadingShowsNothing == isLoading => (editedImage = null /\ error = null)

\* a submission is in flight after an earlier result was saved and another file
\* was selected
C20_Witness ==
    /\ isLoading
    /\ savedAs # null
    /\ tasks # <<>>
    /\ tasks[1].file # originalImageFile

----------------------------------------------------------------------------
(* Properties of the Edit Client *)

IsFirstInline(parts, k) ==
    /\ k \in DOMAIN parts
    /\ parts[k].hasInlineData
    /\ \A j \in 1..(k - 1) : ~parts[j].hasInlineData

\* C6: for a response with at least one inline-image part, editImageWithPrompt
\* returns 'data:' + mimeType + ';base64,' + data of the first such part; a part
\* {mimeType: 'image/png', data: 'AAAA'} gives 'data:image/png;base64,AAAA'.
C6_FirstInlinePart ==
    (settled # Pending /\ ~apiReply.throws)
        => /\ \A k \in DOMAIN apiReply.parts :
                  IsFirstInline(apiReply.parts, k)
                      => /\ settled.state = "fulfilled"
                         /\ settled.value =
                                <<"data", ":">> \o apiReply.parts[k].mimeType
                                    \o <<";", "base64", ",">> \o apiReply.parts[k].data
           /\ IsFirstInline(apiReply.parts, 1)
                  /\ apiReply.parts[1] = InlinePart(<<"image", "/", "png">>, <<"AAAA">>)
                  => settled.value =
                         <<"data", ":", "image", "/", "png", ";", "base64", ",", "AAAA">>

\* a text part, then an image part, then a different image part
C6_Witness ==
    /\ settled.state = "fulfilled"
    /\ Len(apiReply.parts) = 3
    /\ IsFirstInline(apiReply.parts, 2)
    /\ apiReply.parts[3].hasInlineData
    /\ apiReply.parts[3] # apiReply.parts[2]

\* C7: for a response none of whose parts carries inline image data, the error
\* the caller receives has the fixed message 'No image data was found in the API
\* response.'.
C7_NoImageMessage ==
    (settled # Pending /\ ~apiReply.throws
         /\ \A k \in DOMAIN apiReply.parts : ~apiReply.parts[k].hasInlineData)
        => /\ settled.state = "rejected"
           /\ settled.reason.isError
           /\ settled.reason.message = MsgNoImage

\* C8: what editImageWithPrompt raises follows what the remote call threw: the
\* fixed configuration message, never the raw one, for an Error whose message
\* contains 'API key not valid'; a message that includes the original for any
\* other Error; the unknown-error message for a value that is no Error.
C8_CatchRewrites ==
    (settled # Pending /\ apiReply.throws)
        => /\ settled.state = "rejected"
           /\ settled.reason.isError
           /\ IF apiReply.thrown.isError
              THEN IF Includes(apiReply.thrown.message, ApiKeyNotValid)
                   THEN /\ settled.reason.message = MsgInvalidKey
                        /\ settled.reason.message # apiReply.thrown.message
                   ELSE /\ Includes(settled.reason.message, apiReply.thrown.message)
                        /\ settled.reason.message # MsgInvalidKey
              ELSE settled.reason.message = MsgUnknown

\* the remote call threw an Error with 'API key not valid' inside a longer message
C8_Witness ==
    /\ settled.state = "rejected"
    /\ apiReply.throws
    /\ apiReply.thrown.isError
    /\ Len(apiReply.thrown.message) = 3
    /\ settled.reason.message = MsgInvalidKey

----------------------------------------------------------------------------
(* Properties of the Encoder *)

IsFirstComma(result, k) ==
    /\ k \in DOMAIN result
    /\ result[k] = ","
    /\ \A j \in 1..(k - 1) : result[j] # ","

\* nothing follows the first comma, or there is no comma
NothingAfterPrefix(result) == \A k \in DOMAIN result : IsFirstComma(result, k) => k = Len(result)

\* C9: fileToBase64 rejects with the empty-payload error when nothing remains
\* after the prefix is stripped (a zero-byte file, a read result with no comma),
\* and never resolves with an empty string.
C9_EmptyPayloadRejected ==
    settled # Pending
        => /\ NothingAfterPrefix(readerResult)
                  => settled = Reject(Error(MsgEmptyResult))
           /\ settled.state = "fulfilled" => settled.value \notin {<<>>, undefined}

\* the read result of a zero-byte file has been rejected
C9_Witness == readerResult = FileDataURL("empty.png") /\ settled.state = "rejected"

\* C10: for a read result prefix + ',' + payload with a non-empty payload,
\* fileToBase64 resolves with exactly the text that follows the first comma.
C10_TextAfterFirstComma ==
    settled # Pending
        => \A k \in DOMAIN readerResult :
               (IsFirstComma(readerResult, k) /\ k < Len(readerResult))
                   => settled = Resolve(SubSeq(readerResult, k + 1, Len(readerResult)))

----------------------------------------------------------------------------
(* Properties of the download *)

\* the media type a result URI declares: what stands between "data:" and the
\* first ";"
DeclaredType(uri) ==
    LET rest == SubSeq(uri, 3, Len(uri))
        k == CHOOSE i \in DOMAIN rest : rest[i] = ";" /\ \A j \in 1..(i - 1) : rest[j] # ";"
    IN  SubSeq(rest, 1, k - 1)

Slashes(type) == {i \in DOMAIN type : type[i] = "/"}

\* C11: handleDownload names the saved file after the subtype of the media type
\* the result URI declares ('jpeg' for 'data:image/jpeg;base64,...'), and 'png'
\* when that media type is missing, empty or has no '/subtype' part; with no
\* result it does nothing.
C11_DownloadExtension ==
    /\ ~Truthy(editedImage) => savedAs = null
    /\ savedAs # null
           => LET type == DeclaredType(editedImage)
              IN  /\ Slashes(type) = {} => savedAs = <<"alchemized-image", ".", "png">>
                  /\ \A k \in Slashes(type) :
                         Slashes(type) = {k}
                             => savedAs = <<"alchemized-image", ".">>
                                    \o (IF k = Len(type)
                                        THEN <<"png">>
                                        ELSE SubSeq(type, k + 1, Len(type)))

\* a result that declares image/jpeg has been saved
C11_Witness ==
    /\ editedImage = <<"data", ":", "image", "/", "jpeg", ";", "base64", ",", "BBBB">>
    /\ savedAs = <<"alchemized-image", ".", "jpeg">>

====
